---- MODULE Spec2Model ----
(***************************************************************************)
(* Verification model of the converso voice-session controller             *)
(* (components/CompanionComponent.tsx) and of the assistant configuration  *)
(* builder (lib/utils.ts, constants/index.ts).                             *)
(*                                                                         *)
(* Spec        one mounted CompanionComponent, the shared vapi channel it  *)
(*             talks to, and the session-history server action.            *)
(* SpecConfig  configureAssistant applied to bounded (voice, style) pairs. *)
(***************************************************************************)
EXTENDS Integers, Sequences, FiniteSets, TLC

VARIABLES
    mounted,      \* the component instance is mounted
    companionId,  \* props.companionId (effect dependency, captured by onCallEnd)
    callStatus,   \* useState<CallStatus>
    isSpeaking,   \* useState(false)
    isMuted,      \* useState(false)
    messages,     \* useState<SavedMessage[]>([]), index 1 = first rendered
    listeners,    \* handlers registered on the vapi emitter
    effectGen,    \* how many times the listener effect has run
    chMuted,      \* the channel's own mute state (vapi.isMuted())
    history,      \* companionIds passed to addToSessionHistory, in call order
    step,         \* the operation that produced this state and the commands it issued
    finals,       \* final transcript events delivered to the instance, arrival order
    lastSpeech,   \* latest speech event delivered to the instance
    cfg,          \* configureAssistant under test: inputs and result
    search,       \* one SearchInput: state, URL it sees, pending timers, pushes
    card,         \* one CompanionCard: bookmark state and requests in flight
    perm,         \* newCompanionPermissions under test: inputs and result
    link          \* the channel's side of the calls: open call, call-ends in flight

sessVars == <<mounted, companionId, callStatus, isSpeaking, isMuted, messages,
              listeners, effectGen, chMuted, history, step, finals, lastSpeech>>
vars == <<mounted, companionId, callStatus, isSpeaking, isMuted, messages,
          listeners, effectGen, chMuted, history, step, finals, lastSpeech, cfg,
          search, card, perm, link>>

-----------------------------------------------------------------------------
(* Bounds *)

MaxMsgs == 2
MaxNotify == 2
MaxEffects == 2

-----------------------------------------------------------------------------
(* JavaScript values, as far as configureAssistant meets them *)

Str(s) == [t |-> "string", v |-> s]
Num(n) == [t |-> "number", v |-> n]
Fn(n) == [t |-> "function", v |-> n]
Obj(n) == [t |-> "object", v |-> n]
Undefined == [t |-> "undefined", v |-> ""]

\* ToBoolean, as the || operator applies it
Truthy(x) ==
    CASE x.t = "undefined" -> FALSE
      [] x.t = "string" -> x.v # ""
      [] x.t = "number" -> x.v # "0"
      [] OTHER -> TRUE

\* Properties every ordinary object inherits from Object.prototype
ObjectPrototype(k) ==
    CASE k = "constructor" -> Fn("Object")
      [] k = "toString" -> Fn("toString")
      [] OTHER -> Undefined

\* Own and inherited properties of a function object
FunctionGet(f, k) ==
    CASE k = "name" -> Str(f)
      [] k = "length" -> Num(IF f = "Object" THEN "1" ELSE "0")
      [] k = "constructor" -> Fn("Function")
      [] k = "toString" -> Fn("toString")
      [] OTHER -> Undefined

voicesMutSwapped(k1, k2) ==
    CASE k1 = "male" /\ k2 = "casual" -> Str("c6SfcYrb2t09NHXiT80T")
      [] k1 = "male" /\ k2 = "formal" -> Str("2BJW5coyhAzSr8STdHbE")
      [] k1 = "female" /\ k2 = "casual" -> Str("sarah")
      [] k1 = "female" /\ k2 = "formal" -> Str("ZIlrSGI4jZqobxRKprJz")
      [] OTHER -> Undefined

\* The voices table: own properties of voices[k1]
voices(k1, k2) ==
    CASE k1 = "male" /\ k2 = "casual" -> Str("2BJW5coyhAzSr8STdHbE")
      [] k1 = "male" /\ k2 = "formal" -> Str("c6SfcYrb2t09NHXiT80T")
      [] k1 = "female" /\ k2 = "casual" -> Str("ZIlrSGI4jZqobxRKprJz")
      [] k1 = "female" /\ k2 = "formal" -> Str("sarah")
      [] OTHER -> Undefined

VoiceKeys == {"male", "female"}
StyleKeys == {"casual", "formal"}

\* voices[voice as keyof typeof voices]
voiceConfigOf(v) ==
    IF v \in VoiceKeys THEN Obj(v) ELSE ObjectPrototype(v)

\* voiceConfig?.[style as keyof typeof voiceConfig]
styleOf(vc, s) ==
    CASE vc.t = "undefined" -> Undefined  \* ?. short-circuits; a plain [] would throw
      [] vc.t = "object" ->
            IF s \in StyleKeys THEN voices(vc.v, s) ELSE ObjectPrototype(s)
      [] vc.t = "function" -> FunctionGet(vc.v, s)
      [] OTHER -> Undefined

SystemPlaceholders == {"{{ topic }}", "{{ subject }}", "{{ style }}"}

configureAssistantMutSubscribed(v, s) ==
    LET voiceConfig == voiceConfigOf(v)
        found == styleOf(voiceConfig, s)
        voiceId == IF Truthy(found) THEN found ELSE Str("sarah")
    IN [threw |-> FALSE,
        name |-> "Companion",
        firstMessage |->
            "Hello, let's start the session. Today we'll be talking about {{topic}}.",
        transcriber |-> [provider |-> "deepgram", model |-> "nova-3", language |-> "en"],
        voice |-> [provider |-> "11labs", voiceId |-> voiceId, stability |-> "0.4",
                   similarityBoost |-> "0.8", speed |-> "1", style |-> "0.5",
                   useSpeakerBoost |-> TRUE],
        model |-> [provider |-> "openai", model |-> "gpt-4", systemMessages |-> 1,
                   placeholders |-> SystemPlaceholders],
        clientMessages |-> <<"transcript">>,
        serverMessages |-> <<>>]

configureAssistant(v, s) ==
    LET voiceConfig == voiceConfigOf(v)
        found == styleOf(voiceConfig, s)
        voiceId == IF Truthy(found) THEN found ELSE Str("sarah")
    IN [threw |-> FALSE,
        name |-> "Companion",
        firstMessage |->
            "Hello, let's start the session. Today we'll be talking about {{topic}}.",
        transcriber |-> [provider |-> "deepgram", model |-> "nova-3", language |-> "en"],
        voice |-> [provider |-> "11labs", voiceId |-> voiceId, stability |-> "0.4",
                   similarityBoost |-> "0.8", speed |-> "1", style |-> "0.5",
                   useSpeakerBoost |-> TRUE],
        model |-> [provider |-> "openai", model |-> "gpt-4", systemMessages |-> 1,
                   placeholders |-> SystemPlaceholders],
        clientMessages |-> <<>>,
        serverMessages |-> <<>>]

-----------------------------------------------------------------------------
(* Values the other components hold while they are not the one under study *)

SearchIdle == [mounted |-> FALSE]
CardIdle == [mounted |-> FALSE]
PermIdle == [called |-> FALSE]
LinkIdle == [open |-> "none"]

-----------------------------------------------------------------------------
(* The session component *)

CallStatus == {"INACTIVE", "CONNECTING", "ACTIVE", "FINISHED"}
EventNames == {"call-start", "call-end", "message", "error", "speech-start", "speech-end"}
CompanionIds == {"c1", "c2"}
PropVoice == "male"
PropStyle == "formal"
PropSubject == "science"
PropTopic == "Photosynthesis"

Msg(ty, tt, r, tx) == [type |-> ty, transcriptType |-> tt, role |-> r, transcript |-> tx]

\* Payloads the channel may deliver with a message event
MsgInputs ==
    { Msg("transcript", "final", "assistant", "Hello"),
      Msg("transcript", "final", "user", "Hi"),
      Msg("transcript", "partial", "assistant", "Hel"),
      Msg("speech-update", "final", "assistant", "Hello"),
      Msg("conversation-update", "", "", "") }

\* Commands of the channel: vapi.start(assistant, overrides), vapi.stop(), vapi.setMuted(b)
StartCmd(assistant, overrides) ==
    [op |-> "start", muted |-> FALSE,
     args |-> <<[assistant |-> assistant, overrides |-> overrides]>>]
StopCmd == [op |-> "stop", muted |-> FALSE, args |-> <<>>]
SetMutedCmd(b) == [op |-> "setMuted", muted |-> b, args |-> <<>>]

Step(op, msg, cmds) == [op |-> op, msg |-> msg, cmds |-> cmds]

\* The six handlers one run of the listener effect creates and registers
Handlers(gen, cid) == { [ev |-> e, gen |-> gen, cid |-> cid] : e \in EventNames }

\* The component state the channel handlers write
SessState == [callStatus |-> callStatus, isSpeaking |-> isSpeaking,
              messages |-> messages, history |-> history]

onCallStartMutQuiet(s) == [s EXCEPT !.callStatus = "ACTIVE", !.isSpeaking = FALSE]

onCallStartMutGuarded(s) ==
    IF s.callStatus = "CONNECTING" THEN [s EXCEPT !.callStatus = "ACTIVE"] ELSE s

onCallStart(s) == [s EXCEPT !.callStatus = "ACTIVE"]

onCallEndMutSilent(s, cid) == [s EXCEPT !.callStatus = "FINISHED"]

onCallEndMutClear(s, cid) ==
    [s EXCEPT !.callStatus = "FINISHED", !.history = Append(@, cid), !.messages = <<>>]

onCallEndMutReset(s, cid) ==
    [s EXCEPT !.callStatus = "INACTIVE", !.history = Append(@, cid)]

onCallEnd(s, cid) == [s EXCEPT !.callStatus = "FINISHED", !.history = Append(@, cid)]

onMessageMutAnyTranscript(s, m) ==
    IF m.type = "transcript"
    THEN [s EXCEPT !.messages = <<[role |-> m.role, content |-> m.transcript]>> \o @]
    ELSE s

onMessageMutAppend(s, m) ==
    IF m.type = "transcript" /\ m.transcriptType = "final"
    THEN [s EXCEPT !.messages = Append(@, [role |-> m.role, content |-> m.transcript])]
    ELSE s

onMessage(s, m) ==
    IF m.type = "transcript" /\ m.transcriptType = "final"
    THEN [s EXCEPT !.messages = <<[role |-> m.role, content |-> m.transcript]>> \o @]
    ELSE s

onSpeechStart(s) == [s EXCEPT !.isSpeaking = TRUE]

onSpeechEndMutActiveOnly(s) ==
    IF s.callStatus = "ACTIVE" THEN [s EXCEPT !.isSpeaking = FALSE] ELSE s

onSpeechEnd(s) == [s EXCEPT !.isSpeaking = FALSE]

onErrorMutFinish(s) == [s EXCEPT !.callStatus = "FINISHED"]

onErrorMutReset(s) == [s EXCEPT !.callStatus = "INACTIVE"]

onError(s) == s

\* One registered handler run on an emitted event
RunHandler(h, s, payload) ==
    CASE h.ev = "call-start" -> onCallStart(s)
      [] h.ev = "call-end" -> onCallEnd(s, h.cid)
      [] h.ev = "message" -> onMessage(s, payload[1])
      [] h.ev = "speech-start" -> onSpeechStart(s)
      [] h.ev = "speech-end" -> onSpeechEnd(s)
      [] OTHER -> onError(s)

\* The emitter calls the handlers of an event in registration order
RECURSIVE Dispatch(_, _, _)
Dispatch(hs, s, payload) ==
    IF hs = {} THEN s
    ELSE LET h == CHOOSE x \in hs : \A y \in hs : x.gen <= y.gen
         IN Dispatch(hs \ {h}, RunHandler(h, s, payload), payload)

NoPayload == <<>>

Init ==
    /\ mounted = TRUE
    /\ companionId = "c1"
    /\ callStatus = "INACTIVE"
    /\ isSpeaking = FALSE
    /\ isMuted = FALSE
    /\ messages = <<>>
    /\ effectGen = 1
    /\ listeners = Handlers(1, "c1")
    /\ chMuted = FALSE
    /\ history = <<>>
    /\ step = Step("mount", NoPayload, <<>>)
    /\ finals = <<>>
    /\ lastSpeech = "none"
    /\ cfg = [voice |-> "", style |-> "", out |-> <<>>]
    /\ search = SearchIdle
    /\ card = CardIdle
    /\ perm = PermIdle
    /\ link = LinkIdle

\* The channel emits event ev; every handler registered for it runs
Emit(ev, payload) ==
    LET hs == { h \in listeners : h.ev = ev }
        s == Dispatch(hs, SessState, payload)
    IN /\ Len(s.messages) <= MaxMsgs
       /\ Len(s.history) <= MaxNotify
       /\ callStatus' = s.callStatus
       /\ isSpeaking' = s.isSpeaking
       /\ messages' = s.messages
       /\ history' = s.history
       /\ step' = Step(ev, payload, <<>>)
       /\ finals' = IF hs # {} /\ ev = "message" /\ payload[1].type = "transcript"
                        /\ payload[1].transcriptType = "final"
                    THEN Append(finals, payload[1]) ELSE finals
       /\ lastSpeech' = IF hs # {} /\ ev \in {"speech-start", "speech-end"}
                        THEN ev ELSE lastSpeech
       /\ UNCHANGED <<mounted, companionId, isMuted, listeners, effectGen, chMuted, cfg, search, card, perm, link>>

ChannelEvent ==
    \/ \E ev \in EventNames \ {"message"} : Emit(ev, NoPayload)
    \/ \E m \in MsgInputs : Emit("message", <<m>>)

handleCallMutUnmute ==
    /\ mounted
    /\ callStatus # "ACTIVE"
    /\ callStatus' = "CONNECTING"
    /\ isMuted' = FALSE
    /\ step' = Step("startSession", NoPayload,
                    << StartCmd(configureAssistant(PropVoice, PropStyle),
                                [variableValues |-> [subject |-> PropSubject,
                                                     topic |-> PropTopic,
                                                     style |-> PropStyle],
                                 clientMessages |-> <<"transcript">>,
                                 serverMessages |-> <<>>]) >>)
    /\ UNCHANGED <<mounted, companionId, isSpeaking, messages, listeners,
                   effectGen, chMuted, history, finals, lastSpeech, cfg, search, card, perm, link>>

handleCallMutSwappedArgs ==
    /\ mounted
    /\ callStatus # "ACTIVE"
    /\ callStatus' = "CONNECTING"
    /\ step' = Step("startSession", NoPayload,
                    << StartCmd(configureAssistant(PropStyle, PropVoice),
                                [variableValues |-> [subject |-> PropSubject,
                                                     topic |-> PropTopic,
                                                     style |-> PropStyle],
                                 clientMessages |-> <<"transcript">>,
                                 serverMessages |-> <<>>]) >>)
    /\ UNCHANGED <<mounted, companionId, isSpeaking, isMuted, messages, listeners,
                   effectGen, chMuted, history, finals, lastSpeech, cfg, search, card, perm, link>>

\* handleCall, the call button's onClick while callStatus is not ACTIVE
handleCall ==
    /\ mounted
    /\ callStatus # "ACTIVE"
    /\ callStatus' = "CONNECTING"
    /\ step' = Step("startSession", NoPayload,
                    << StartCmd(configureAssistant(PropVoice, PropStyle),
                                [variableValues |-> [subject |-> PropSubject,
                                                     topic |-> PropTopic,
                                                     style |-> PropStyle],
                                 clientMessages |-> <<"transcript">>,
                                 serverMessages |-> <<>>]) >>)
    /\ UNCHANGED <<mounted, companionId, isSpeaking, isMuted, messages, listeners,
                   effectGen, chMuted, history, finals, lastSpeech, cfg, search, card, perm, link>>

\* handleDisconnect, the call button's onClick while callStatus is ACTIVE
handleDisconnect ==
    /\ mounted
    /\ callStatus = "ACTIVE"
    /\ callStatus' = "FINISHED"
    /\ step' = Step("endSession", NoPayload, <<StopCmd>>)
    /\ UNCHANGED <<mounted, companionId, isSpeaking, isMuted, messages, listeners,
                   effectGen, chMuted, history, finals, lastSpeech, cfg, search, card, perm, link>>

\* What toggleMicrophone passes to vapi.setMuted and to setIsMuted, given vapi.isMuted()
toggleTargetMutLocal(m) == ~isMuted

toggleTarget(m) == ~m

toggleMicrophoneMutAlways ==
    /\ mounted
    /\ chMuted' = toggleTarget(chMuted)
    /\ isMuted' = toggleTarget(chMuted)
    /\ step' = Step("toggleMicrophone", NoPayload, <<SetMutedCmd(toggleTarget(chMuted))>>)
    /\ UNCHANGED <<mounted, companionId, callStatus, isSpeaking, messages, listeners,
                   effectGen, history, finals, lastSpeech, cfg, search, card, perm, link>>

\* toggleMicrophone, the mic button's onClick; the button is disabled unless ACTIVE
toggleMicrophone ==
    /\ mounted
    /\ callStatus = "ACTIVE"
    /\ chMuted' = toggleTarget(chMuted)
    /\ isMuted' = toggleTarget(chMuted)
    /\ step' = Step("toggleMicrophone", NoPayload, <<SetMutedCmd(toggleTarget(chMuted))>>)
    /\ UNCHANGED <<mounted, companionId, callStatus, isSpeaking, messages, listeners,
                   effectGen, history, finals, lastSpeech, cfg, search, card, perm, link>>

\* The listener effect's cleanup: vapi.off for each handler this run registered
cleanupMutLeak(gen, cid) ==
    listeners \ { h \in Handlers(gen, cid) : h.ev # "call-end" }

cleanup(gen, cid) == listeners \ Handlers(gen, cid)

\* props.companionId changes: the effect cleans up and runs again
ChangeCompanion ==
    /\ mounted
    /\ effectGen < MaxEffects
    /\ \E c \in CompanionIds \ {companionId} :
        /\ companionId' = c
        /\ effectGen' = effectGen + 1
        /\ listeners' = cleanup(effectGen, companionId) \cup Handlers(effectGen + 1, c)
    /\ step' = Step("changeCompanion", NoPayload, <<>>)
    /\ UNCHANGED <<mounted, callStatus, isSpeaking, isMuted, messages, chMuted,
                   history, finals, lastSpeech, cfg, search, card, perm, link>>

\* The component unmounts: the effect's cleanup runs
Unmount ==
    /\ mounted
    /\ mounted' = FALSE
    /\ listeners' = cleanup(effectGen, companionId)
    /\ step' = Step("unmount", NoPayload, <<>>)
    /\ UNCHANGED <<companionId, callStatus, isSpeaking, isMuted, messages,
                   effectGen, chMuted, history, finals, lastSpeech, cfg, search, card, perm, link>>

\* The channel's microphone state changes without a command of this instance
ChannelMuteDrift ==
    /\ chMuted' = ~chMuted
    /\ step' = Step("channelMute", NoPayload, <<>>)
    /\ UNCHANGED <<mounted, companionId, callStatus, isSpeaking, isMuted, messages,
                   listeners, effectGen, history, finals, lastSpeech, cfg, search, card, perm, link>>

Next ==
    \/ ChannelEvent
    \/ handleCall
    \/ handleDisconnect
    \/ toggleMicrophone
    \/ ChangeCompanion
    \/ Unmount
    \/ ChannelMuteDrift

Spec == Init /\ [][Next]_vars

\* The session component on a channel whose microphone state only this instance changes
NextOwnMute ==
    \/ ChannelEvent
    \/ handleCall
    \/ handleDisconnect
    \/ toggleMicrophone
    \/ ChangeCompanion
    \/ Unmount

SpecOwnMute == Init /\ [][NextOwnMute]_vars

-----------------------------------------------------------------------------
(* configureAssistant on bounded inputs *)

\* Strings tried as voice and as style: the table's keys, unknown names, the empty
\* string, and names every JavaScript object answers to
StrInputs == {"male", "female", "casual", "formal", "invalid", "",
              "constructor", "toString", "name", "length"}

InitConfig ==
    /\ mounted = TRUE
    /\ companionId = "c1"
    /\ callStatus = "INACTIVE"
    /\ isSpeaking = FALSE
    /\ isMuted = FALSE
    /\ messages = <<>>
    /\ effectGen = 1
    /\ listeners = Handlers(1, "c1")
    /\ chMuted = FALSE
    /\ history = <<>>
    /\ step = Step("mount", NoPayload, <<>>)
    /\ finals = <<>>
    /\ lastSpeech = "none"
    /\ \E v \in StrInputs, s \in StrInputs : cfg = [voice |-> v, style |-> s, out |-> <<>>]
    /\ search = SearchIdle
    /\ card = CardIdle
    /\ perm = PermIdle
    /\ link = LinkIdle

Configure ==
    /\ cfg.out = <<>>
    /\ cfg' = [cfg EXCEPT !.out = <<configureAssistant(cfg.voice, cfg.style)>>]
    /\ UNCHANGED <<sessVars, search, card, perm, link>>

NextConfig == Configure

SpecConfig == InitConfig /\ [][NextConfig]_vars

-----------------------------------------------------------------------------
(* The session component and configureAssistant at rest, for the other specifications *)

SessionAtMount ==
    /\ mounted = TRUE
    /\ companionId = "c1"
    /\ callStatus = "INACTIVE"
    /\ isSpeaking = FALSE
    /\ isMuted = FALSE
    /\ messages = <<>>
    /\ effectGen = 1
    /\ listeners = Handlers(1, "c1")
    /\ chMuted = FALSE
    /\ history = <<>>
    /\ step = Step("mount", NoPayload, <<>>)
    /\ finals = <<>>
    /\ lastSpeech = "none"
    /\ cfg = [voice |-> "", style |-> "", out |-> <<>>]

-----------------------------------------------------------------------------
(* SearchInput: the debounced topic search *)

DebounceMs == 500
TickMs == 250
MaxPushes == 2

\* Input values, as sequences of characters
QueryInputs == { <<>>, <<"t">>, <<" ">>, <<" ", "t">>, <<"t", "e">> }
Paths == {"/companions", "/"}

RECURSIVE TrimStart(_)
TrimStart(q) == IF q # <<>> /\ Head(q) = " " THEN TrimStart(Tail(q)) ELSE q

RECURSIVE TrimEnd(_)
TrimEnd(q) ==
    IF q # <<>> /\ q[Len(q)] = " " THEN TrimEnd(SubSeq(q, 1, Len(q) - 1)) ELSE q

\* String.prototype.trim
Trim(q) == TrimEnd(TrimStart(q))

\* The topic parameter of a URL: <<>> when absent, <<value>> when present
TopicOptions == { <<>>, << <<"t">> >>, << <<"t", "e">> >> }

\* formUrlQuery({params, key: "topic", value}): the URL with topic set to value
formUrlQuery(params, value) == [topic |-> <<value>>]

\* removeKeysFromUrlQuery({params, keysToRemove: ["topic"]}): the URL without topic
removeKeysFromUrlQuery(params) == [topic |-> <<>>]

\* setTimeout(..., 500) of one effect run; the callback closes over q, path and params
NewTimer(q, path, params) ==
    [left |-> DebounceMs, q |-> q, pathname |-> path, params |-> params]

delayDebounceFnMutAnyPath(t) ==
    IF Trim(t.q) # <<>>
    THEN << formUrlQuery(t.params, Trim(t.q)) >>
    ELSE << removeKeysFromUrlQuery(t.params) >>

\* What the timer callback passes to router.push: <<url>>, or <<>> when it pushes nothing
delayDebounceFn(t) ==
    IF Trim(t.q) # <<>>
    THEN << formUrlQuery(t.params, Trim(t.q)) >>
    ELSE IF t.pathname = "/companions"
         THEN << removeKeysFromUrlQuery(t.params) >>
         ELSE <<>>

searchCleanupMutKeep(ts, q, path, params) == ts

\* The effect's cleanup: clearTimeout of the timer its run created
searchCleanup(ts, q, path, params) ==
    { t \in ts : ~(t.q = q /\ t.pathname = path /\ t.params = params) }

Min(a, b) == IF a < b THEN a ELSE b
Max(a, b) == IF a > b THEN a ELSE b

InitSearch ==
    /\ SessionAtMount
    /\ card = CardIdle
    /\ perm = PermIdle
    /\ link = LinkIdle
    /\ \E path \in Paths, topic \in TopicOptions :
        search = [mounted |-> TRUE,
                  searchQuery |-> <<>>,
                  pathname |-> path,
                  params |-> [topic |-> topic],
                  timers |-> {NewTimer(<<>>, path, [topic |-> topic])},
                  lastPush |-> <<>>,
                  last |-> "mount",
                  sinceChange |-> 0,
                  typed |-> FALSE,
                  depsChanged |-> FALSE,
                  pushesSinceInput |-> 0]

\* onChange: setSearchQuery(value); the effect cleans up and runs again
SearchType ==
    /\ search.mounted
    /\ \E q \in QueryInputs \ {search.searchQuery} :
        search' = [search EXCEPT
            !.searchQuery = q,
            !.timers = searchCleanup(search.timers, search.searchQuery,
                                     search.pathname, search.params)
                       \cup {NewTimer(q, search.pathname, search.params)},
            !.last = "type",
            !.sinceChange = 0,
            !.typed = TRUE,
            !.depsChanged = FALSE,
            !.pushesSinceInput = 0]
    /\ UNCHANGED <<sessVars, cfg, card, perm, link>>

\* Time passes; a due timer runs before more time passes
SearchTick ==
    /\ \A t \in search.timers : t.left > 0
    /\ search.last # "unmount"
    /\ search' = [search EXCEPT
            !.timers = { [t EXCEPT !.left = Max(0, t.left - TickMs)] : t \in search.timers },
            !.sinceChange = Min(DebounceMs, search.sinceChange + TickMs),
            !.last = "tick"]
    /\ UNCHANGED <<sessVars, cfg, card, perm, link>>

\* A due timer's callback runs
SearchFire ==
    /\ \E t \in search.timers :
        /\ t.left = 0
        /\ LET url == delayDebounceFn(t)
           IN search' = [search EXCEPT
                !.timers = search.timers \ {t},
                !.lastPush = IF url # <<>> THEN url ELSE search.lastPush,
                !.last = IF url # <<>> THEN "push" ELSE "nopush",
                !.pushesSinceInput =
                    IF url # <<>> THEN Min(MaxPushes, search.pushesSinceInput + 1)
                    ELSE search.pushesSinceInput]
    /\ UNCHANGED <<sessVars, cfg, card, perm, link>>

\* The URL changes (after a push or another navigation): usePathname / useSearchParams
\* return new values; the effect cleans up and runs again
SearchNavigate ==
    /\ search.mounted
    /\ \E path \in Paths, topic \in TopicOptions :
        /\ <<path, topic>> # <<search.pathname, search.params.topic>>
        /\ search' = [search EXCEPT
            !.pathname = path,
            !.params = [topic |-> topic],
            !.timers = searchCleanup(search.timers, search.searchQuery,
                                     search.pathname, search.params)
                       \cup {NewTimer(search.searchQuery, path, [topic |-> topic])},
            !.last = "navigate",
            !.depsChanged = TRUE]
    /\ UNCHANGED <<sessVars, cfg, card, perm, link>>

SearchUnmountMutNoClear ==
    /\ search.mounted
    /\ search' = [search EXCEPT !.mounted = FALSE, !.last = "unmount"]
    /\ UNCHANGED <<sessVars, cfg, card, perm, link>>

\* The component unmounts: the effect's cleanup runs
SearchUnmount ==
    /\ search.mounted
    /\ search' = [search EXCEPT
            !.mounted = FALSE,
            !.timers = searchCleanup(search.timers, search.searchQuery,
                                     search.pathname, search.params),
            !.last = "unmount"]
    /\ UNCHANGED <<sessVars, cfg, card, perm, link>>

NextSearch ==
    \/ SearchType
    \/ SearchTick
    \/ SearchFire
    \/ SearchNavigate
    \/ SearchUnmount

SpecSearch == InitSearch /\ [][NextSearch]_vars

-----------------------------------------------------------------------------
(* CompanionCard: the bookmark button *)

MaxCalls == 3

CardId == "c1"
CardPath == "/companions"

\* A server action call made by handleBookmark, pending until it settles
Request(op) == [op |-> op, id |-> CardId, path |-> CardPath]

\* disabled={isLoading}: a disabled button receives no click
ButtonDisabled(c) == c.isLoading

handleBookmarkMutNoLoading(c) ==
    [c EXCEPT
        !.pending = Append(c.pending,
            Request(IF c.isBookmarked THEN "removeBookmark" ELSE "addBookmark")),
        !.calls = c.calls + 1,
        !.was = c.isBookmarked,
        !.last = "click"]

\* handleBookmark up to its await: setIsLoading(true), then the server action call
handleBookmark(c) ==
    [c EXCEPT
        !.isLoading = TRUE,
        !.pending = Append(c.pending,
            Request(IF c.isBookmarked THEN "removeBookmark" ELSE "addBookmark")),
        !.calls = c.calls + 1,
        !.was = c.isBookmarked,
        !.last = "click"]

\* State setters of an unmounted component are no-ops; toasts are global
SetIfMounted(c, new) == IF c.mounted THEN new ELSE c

onFulfilledMutKeep(c, r) ==
    [SetIfMounted(c, [c EXCEPT !.isLoading = FALSE])
        EXCEPT !.toasts = Append(c.toasts, "success: Bookmarked successfully!"),
               !.was = c.isBookmarked,
               !.last = "resolve"]

\* handleBookmark after its await resolved, with the finally block
onFulfilled(c, r) ==
    IF r.op = "removeBookmark"
    THEN [SetIfMounted(c, [c EXCEPT !.isBookmarked = FALSE, !.isLoading = FALSE])
            EXCEPT !.toasts = Append(c.toasts, "success: Bookmark removed!"),
                   !.was = c.isBookmarked,
                   !.last = "resolve"]
    ELSE [SetIfMounted(c, [c EXCEPT !.isBookmarked = TRUE,
                                    !.showSuccessAnimation = TRUE,
                                    !.isLoading = FALSE])
            EXCEPT !.animTimers = c.animTimers + 1,
                   !.toasts = Append(c.toasts, "success: Bookmarked successfully!"),
                   !.was = c.isBookmarked,
                   !.last = "resolve"]

\* handleBookmark after its await rejected: the catch and finally blocks
onRejected(c, r) ==
    [SetIfMounted(c, [c EXCEPT !.isLoading = FALSE])
        EXCEPT !.toasts = Append(c.toasts, "error: Something went wrong!"),
               !.was = c.isBookmarked,
               !.last = "reject"]

RemoveAt(q, i) == SubSeq(q, 1, i - 1) \o SubSeq(q, i + 1, Len(q))

InitCard ==
    /\ SessionAtMount
    /\ search = SearchIdle
    /\ perm = PermIdle
    /\ link = LinkIdle
    /\ \E bookmarked \in BOOLEAN :
        card = [mounted |-> TRUE,
                isLoading |-> FALSE,
                isBookmarked |-> bookmarked,
                showSuccessAnimation |-> FALSE,
                animTimers |-> 0,
                pending |-> <<>>,
                calls |-> 0,
                toasts |-> <<>>,
                was |-> bookmarked,
                last |-> "mount"]

\* The user clicks the bookmark button
CardClick ==
    /\ card.mounted
    /\ ~ButtonDisabled(card)
    /\ card.calls < MaxCalls
    /\ card' = handleBookmark(card)
    /\ UNCHANGED <<sessVars, cfg, search, perm, link>>

\* A pending server action resolves
CardResolve ==
    /\ \E i \in 1..Len(card.pending) :
        card' = [onFulfilled(card, card.pending[i])
                    EXCEPT !.pending = RemoveAt(card.pending, i)]
    /\ UNCHANGED <<sessVars, cfg, search, perm, link>>

\* A pending server action rejects
CardReject ==
    /\ \E i \in 1..Len(card.pending) :
        card' = [onRejected(card, card.pending[i])
                    EXCEPT !.pending = RemoveAt(card.pending, i)]
    /\ UNCHANGED <<sessVars, cfg, search, perm, link>>

\* setTimeout(() => setShowSuccessAnimation(false), 300) comes due
CardAnimationEnd ==
    /\ card.animTimers > 0
    /\ card' = [SetIfMounted(card, [card EXCEPT !.showSuccessAnimation = FALSE])
                    EXCEPT !.animTimers = card.animTimers - 1,
                           !.last = "animation-end"]
    /\ UNCHANGED <<sessVars, cfg, search, perm, link>>

\* The card leaves the page
CardUnmount ==
    /\ card.mounted
    /\ card' = [card EXCEPT !.mounted = FALSE, !.last = "unmount"]
    /\ UNCHANGED <<sessVars, cfg, search, perm, link>>

NextCard ==
    \/ CardClick
    \/ CardResolve
    \/ CardReject
    \/ CardAnimationEnd
    \/ CardUnmount

SpecCard == InitCard /\ [][NextCard]_vars

-----------------------------------------------------------------------------
(* newCompanionPermissions and the page that calls it *)

MaxCompanions == 11

\* What auth().has answers for the plan and the two features
HasInputs == [pro : BOOLEAN, f3 : BOOLEAN, f10 : BOOLEAN]
NoEntitlements == [pro |-> FALSE, f3 |-> FALSE, f10 |-> FALSE]

\* let limit = 0; else-if chain over the features (reached only when the plan is not pro)
companionLimit(has) ==
    IF has.f3 THEN 3
    ELSE IF has.f10 THEN 10
    ELSE 0

withinLimitMutInclusive(companionCount, limit) ==
    IF companionCount > limit THEN FALSE ELSE TRUE

\* if(companionCount >= limit) return false; else return true
withinLimit(companionCount, limit) ==
    IF companionCount >= limit THEN FALSE ELSE TRUE

InitPerm ==
    /\ SessionAtMount
    /\ search = SearchIdle
    /\ card = CardIdle
    /\ link = LinkIdle
    /\ \E signedIn \in BOOLEAN, has \in HasInputs, rows \in 0..MaxCompanions :
        /\ ~signedIn => has = NoEntitlements
        /\ perm = [called |-> FALSE,
                   signedIn |-> signedIn,
                   has |-> has,
                   rows |-> rows,
                   pc |-> "page",
                   limit |-> 0,
                   queryFailed |-> FALSE,
                   result |-> "none",
                   page |-> "none"]

\* NewCompanion: auth(), redirect when signed out, else call newCompanionPermissions
PageAuth ==
    /\ perm.pc = "page"
    /\ perm' = IF ~perm.signedIn
               THEN [perm EXCEPT !.pc = "done", !.page = "redirect:/sign-in"]
               ELSE [perm EXCEPT !.pc = "plan", !.called = TRUE]
    /\ UNCHANGED <<sessVars, cfg, search, card, link>>

\* newCompanionPermissions: auth() and the plan / feature checks
PermPlan ==
    /\ perm.pc = "plan"
    /\ perm' = IF perm.has.pro
               THEN [perm EXCEPT !.pc = "render", !.result = "true"]
               ELSE [perm EXCEPT !.pc = "count", !.limit = companionLimit(perm.has)]
    /\ UNCHANGED <<sessVars, cfg, search, card, link>>

\* newCompanionPermissions: the count query answers with the rows or with an error
PermCount ==
    /\ perm.pc = "count"
    /\ \E error \in BOOLEAN :
        perm' = IF error
                THEN [perm EXCEPT !.pc = "done", !.queryFailed = TRUE,
                                  !.result = "throw", !.page = "error"]
                ELSE [perm EXCEPT !.pc = "render",
                                  !.result = IF withinLimit(perm.rows, perm.limit)
                                             THEN "true" ELSE "false"]
    /\ UNCHANGED <<sessVars, cfg, search, card, link>>

\* NewCompanion renders the form or the upgrade prompt
PageRender ==
    /\ perm.pc = "render"
    /\ perm' = [perm EXCEPT !.pc = "done",
                            !.page = IF perm.result = "true" THEN "form" ELSE "limit"]
    /\ UNCHANGED <<sessVars, cfg, search, card, link>>

NextPerm ==
    \/ PageAuth
    \/ PermPlan
    \/ PermCount
    \/ PageRender

SpecPerm == InitPerm /\ [][NextPerm]_vars

-----------------------------------------------------------------------------
(* The session component on a channel that keeps track of its calls *)

MaxSessions == 2

\* A call-end event the channel owes for call id, closed by a stop command ("stop"),
\* by the remote side ("remote") or by a start that replaced it ("replaced")
OwedEnd(id, by) == [id |-> id, by |-> by]

\* The channel closes its open call and owes the call-end event for it
CloseCall(l, by) ==
    IF l.open = "none" THEN l
    ELSE [l EXCEPT !.open = "none", !.ends = Append(@, OwedEnd(l.id, by))]

\* The channel opens a new call
OpenCall(l) == [l EXCEPT !.open = "requested", !.id = @ + 1]

InitLink ==
    /\ SessionAtMount
    /\ search = SearchIdle
    /\ card = CardIdle
    /\ perm = PermIdle
    /\ link = [open |-> "none", id |-> 0, ends |-> <<>>, lastEnd |-> 0, recorded |-> {}]

\* The channel emits ev to the handlers registered for it and moves to state l
EmitOnLink(ev, l) ==
    LET hs == { h \in listeners : h.ev = ev }
        s == Dispatch(hs, SessState, NoPayload)
    IN /\ callStatus' = s.callStatus
       /\ isSpeaking' = s.isSpeaking
       /\ messages' = s.messages
       /\ history' = s.history
       /\ step' = Step(ev, NoPayload, <<>>)
       /\ link' = [l EXCEPT !.recorded =
                        IF ev = "call-end" /\ hs # {} THEN @ \cup {l.lastEnd} ELSE @]
       /\ UNCHANGED <<mounted, companionId, isMuted, listeners, effectGen, chMuted,
                      finals, lastSpeech, cfg, search, card, perm>>

\* handleCall; the channel opens a call, or, with a call already open, either ignores
\* the start or replaces the open call
handleCallOnLink ==
    /\ mounted
    /\ callStatus # "ACTIVE"
    /\ link.id < MaxSessions
    /\ callStatus' = "CONNECTING"
    /\ step' = Step("startSession", NoPayload,
                    << StartCmd(configureAssistant(PropVoice, PropStyle),
                                [variableValues |-> [subject |-> PropSubject,
                                                     topic |-> PropTopic,
                                                     style |-> PropStyle],
                                 clientMessages |-> <<"transcript">>,
                                 serverMessages |-> <<>>]) >>)
    /\ \/ link' = OpenCall(CloseCall(link, "replaced"))
       \/ link.open # "none" /\ link' = link
    /\ UNCHANGED <<mounted, companionId, isSpeaking, isMuted, messages, listeners,
                   effectGen, chMuted, history, finals, lastSpeech, cfg, search, card, perm>>

\* handleDisconnect; the stop command closes the open call, if there is one
handleDisconnectOnLink ==
    /\ mounted
    /\ callStatus = "ACTIVE"
    /\ callStatus' = "FINISHED"
    /\ step' = Step("endSession", NoPayload, <<StopCmd>>)
    /\ link' = CloseCall(link, "stop")
    /\ UNCHANGED <<mounted, companionId, isSpeaking, isMuted, messages, listeners,
                   effectGen, chMuted, history, finals, lastSpeech, cfg, search, card, perm>>

\* The requested call connects: the channel emits call-start
CallConnects ==
    /\ link.open = "requested"
    /\ EmitOnLink("call-start", [link EXCEPT !.open = "live"])

\* The remote side hangs up; the call-end event follows later
RemoteHangUp ==
    /\ link.open # "none"
    /\ link' = CloseCall(link, "remote")
    /\ step' = Step("hangup", NoPayload, <<>>)
    /\ UNCHANGED <<mounted, companionId, callStatus, isSpeaking, isMuted, messages,
                   listeners, effectGen, chMuted, history, finals, lastSpeech, cfg,
                   search, card, perm>>

\* The channel emits the call-end event it owes longest
CallEndArrives ==
    /\ link.ends # <<>>
    /\ EmitOnLink("call-end", [link EXCEPT !.ends = Tail(@), !.lastEnd = Head(link.ends).id])

\* The channel emits error; a fatal one ends the open call with no call-end event
ChannelError ==
    \E fatal \in BOOLEAN :
        EmitOnLink("error", IF fatal THEN [link EXCEPT !.open = "none"] ELSE link)

UnmountOnLinkMutStop ==
    /\ mounted
    /\ mounted' = FALSE
    /\ listeners' = cleanup(effectGen, companionId)
    /\ step' = Step("unmount", NoPayload, <<StopCmd>>)
    /\ link' = CloseCall(link, "stop")
    /\ UNCHANGED <<companionId, callStatus, isSpeaking, isMuted, messages,
                   effectGen, chMuted, history, finals, lastSpeech, cfg, search, card, perm>>

\* The component unmounts: the effect's cleanup runs, the channel is told nothing
UnmountOnLink ==
    /\ mounted
    /\ mounted' = FALSE
    /\ listeners' = cleanup(effectGen, companionId)
    /\ step' = Step("unmount", NoPayload, <<>>)
    /\ link' = link
    /\ UNCHANGED <<companionId, callStatus, isSpeaking, isMuted, messages,
                   effectGen, chMuted, history, finals, lastSpeech, cfg, search, card, perm>>

NextLink ==
    \/ handleCallOnLink
    \/ handleDisconnectOnLink
    \/ CallConnects
    \/ RemoteHangUp
    \/ CallEndArrives
    \/ ChannelError
    \/ UnmountOnLink

SpecLink == InitLink /\ [][NextLink]_vars

\* The channel eventually emits every call-end event it owes
SpecLinkFair == SpecLink /\ WF_vars(CallEndArrives)

-----------------------------------------------------------------------------
(* Claims *)

Rank(st) ==
    CASE st = "INACTIVE" -> 0
      [] st = "CONNECTING" -> 1
      [] st = "ACTIVE" -> 2
      [] OTHER -> 3

C2_NotifiedAtMostOnce == Len(history) <= 1

IsFinalTranscript(m) == m.type = "transcript" /\ m.transcriptType = "final"

\* C4: a message event delivered to the instance prepends one entry to the transcript
\* if and only if it is a transcript message marked final; every other step, and so
\* every other message however often repeated, leaves the transcript unchanged.
C4_AppendIffFinal ==
    [][ IF step'.op = "message" /\ mounted /\ IsFinalTranscript(step'.msg[1])
        THEN messages' = <<[role |-> step'.msg[1].role,
                            content |-> step'.msg[1].transcript]>> \o messages
        ELSE messages' = messages ]_vars

C4_Witness ==
    /\ step.op = "message"
    /\ ~IsFinalTranscript(step.msg[1])
    /\ step.msg[1].type = "transcript"
    /\ Len(messages) = 1

\* C5: the transcript display list is the final transcript events received so far in
\* reversed arrival order, each mapped to {role, content = transcript}.
C5_NewestFirst ==
    /\ Len(messages) = Len(finals)
    /\ \A i \in 1..Len(messages) :
        messages[i] = [role |-> finals[Len(finals) + 1 - i].role,
                       content |-> finals[Len(finals) + 1 - i].transcript]

C5_Witness ==
    /\ Len(messages) = 2
    /\ messages[1] = [role |-> "assistant", content |-> "Hello"]
    /\ messages[2] = [role |-> "user", content |-> "Hi"]

InTable(v, s) == v \in {"male", "female"} /\ s \in {"casual", "formal"}

\* C6 (as stated): for every (voice, style) that is not an entry of the voices table,
\* configureAssistant returns voiceId "sarah" and does not throw.
C6_FallbackForUnknown ==
    (cfg.out # <<>> /\ ~InTable(cfg.voice, cfg.style)) =>
        /\ ~cfg.out[1].threw
        /\ cfg.out[1].voice.voiceId = Str("sarah")

\* The identifiers of constants/index.ts, written out
TableVoiceId(v, s) ==
    IF v = "male"
    THEN (IF s = "casual" THEN "2BJW5coyhAzSr8STdHbE" ELSE "c6SfcYrb2t09NHXiT80T")
    ELSE (IF s = "casual" THEN "ZIlrSGI4jZqobxRKprJz" ELSE "sarah")

\* C7: for voice in {male, female} and style in {casual, formal}, configureAssistant
\* returns the voiceId the voices table holds for that pair.
C7_TableVoice ==
    (cfg.out # <<>> /\ InTable(cfg.voice, cfg.style)) =>
        cfg.out[1].voice.voiceId = Str(TableVoiceId(cfg.voice, cfg.style))

C7_Witness ==
    /\ cfg.out # <<>>
    /\ cfg.voice = "male"
    /\ cfg.style = "formal"
    /\ cfg.out[1].voice.voiceId = Str("c6SfcYrb2t09NHXiT80T")

\* C8: toggleMicrophone reads the channel's mute state m, issues exactly one command,
\* setMuted(not m), and sets isMuted to not m, so that afterwards isMuted equals the
\* channel's mute state; from isMuted = false on an unmuted channel the command is
\* setMuted(true) and isMuted becomes true.
C8_ToggleFollowsChannel ==
    [][ step'.op = "toggleMicrophone" =>
            /\ step'.cmds = <<[op |-> "setMuted", muted |-> ~chMuted, args |-> <<>>]>>
            /\ isMuted' = ~chMuted
            /\ isMuted' = chMuted'
            /\ (~isMuted /\ ~chMuted) => (step'.cmds[1].muted /\ isMuted') ]_vars

C8_Witness ==
    /\ step.op = "toggleMicrophone"
    /\ step.cmds[1].muted
    /\ isMuted
    /\ chMuted

\* C9: in every callStatus isSpeaking is true exactly when the latest speech event
\* the instance received was speech-start (false when none was received), and a
\* call-start event delivered to the instance leaves callStatus Active.
C9_SpeakingFollowsEvents ==
    /\ [](isSpeaking = (lastSpeech = "speech-start"))
    /\ [][(step'.op = "call-start" /\ mounted) => callStatus' = "ACTIVE"]_vars

C9_Witness ==
    /\ callStatus = "FINISHED"
    /\ step.op = "speech-end"
    /\ ~isSpeaking
    /\ lastSpeech = "speech-end"

\* C10: while mounted the channel holds exactly the six handlers of the current run
\* of the listener effect; after unmount it holds none of them, and no later step
\* changes the instance's state or invokes the completion notifier.
C10_TeardownDeregisters ==
    /\ [](mounted => listeners = Handlers(effectGen, companionId))
    /\ [](~mounted => listeners = {})
    /\ [][~mounted =>
            UNCHANGED <<callStatus, isSpeaking, isMuted, messages, history>>]_vars

C10_Witness ==
    /\ ~mounted
    /\ step.op = "call-end"
    /\ effectGen = 2
    /\ callStatus = "ACTIVE"

\* C11 (as stated): in every reachable state in which callStatus is Finished the
\* completion notifier has been invoked for this instance, whichever path led there.
C11_NotifiedWhenFinished == callStatus = "FINISHED" => Len(history) >= 1

\* C12: apart from voice.voiceId every field of the config configureAssistant returns
\* is the same fixed value for all inputs: name, firstMessage, transcriber, the voice
\* settings, one system message with the three placeholders, and empty clientMessages
\* and serverMessages.
C12_FixedFields ==
    cfg.out # <<>> =>
        /\ cfg.out[1].name = "Companion"
        /\ cfg.out[1].firstMessage =
            "Hello, let's start the session. Today we'll be talking about {{topic}}."
        /\ cfg.out[1].transcriber =
            [provider |-> "deepgram", model |-> "nova-3", language |-> "en"]
        /\ [cfg.out[1].voice EXCEPT !.voiceId = Str("")] =
            [provider |-> "11labs", voiceId |-> Str(""), stability |-> "0.4",
             similarityBoost |-> "0.8", speed |-> "1", style |-> "0.5",
             useSpeakerBoost |-> TRUE]
        /\ cfg.out[1].model.provider = "openai"
        /\ cfg.out[1].model.model = "gpt-4"
        /\ cfg.out[1].model.systemMessages = 1
        /\ cfg.out[1].model.placeholders = {"{{ topic }}", "{{ subject }}", "{{ style }}"}
        /\ cfg.out[1].clientMessages = <<>>
        /\ cfg.out[1].serverMessages = <<>>
        /\ ~cfg.out[1].threw

C12_Witness ==
    /\ cfg.out # <<>>
    /\ cfg.voice = "constructor"
    /\ cfg.style = "name"
    /\ cfg.out[1].voice.voiceId # Str("sarah")
    /\ cfg.out[1].clientMessages = <<>>

\* C18 (as stated): a start command is issued to the channel only while callStatus is
\* Inactive or Finished, never while it is Connecting or Active.
C18_StartOnlyWhenIdle ==
    [][step'.op = "startSession" => callStatus \in {"INACTIVE", "FINISHED"}]_vars

C20_StartIssuesOneStart ==
    [][ /\ step'.op = "startSession" =>
            /\ callStatus' = "CONNECTING"
            /\ Len(step'.cmds) = 1
            /\ step'.cmds[1].op = "start"
            /\ step'.cmds[1].args[1].assistant.name = "Companion"
            /\ step'.cmds[1].args[1].assistant.voice.voiceId =
                    Str("c6SfcYrb2t09NHXiT80T")
            /\ step'.cmds[1].args[1].overrides =
                    [variableValues |-> [subject |-> "science",
                                         topic |-> "Photosynthesis",
                                         style |-> "formal"],
                     clientMessages |-> <<"transcript">>,
                     serverMessages |-> <<>>]
        /\ (callStatus # "ACTIVE" /\ callStatus' = "ACTIVE") =>
                step'.op = "call-start" ]_vars

C20_Witness ==
    /\ step.op = "startSession"
    /\ callStatus = "CONNECTING"
    /\ Len(step.cmds) = 1
    /\ Len(history) >= 1

\* What the URL's topic becomes for an input value: set to the trimmed value, or removed
TopicFor(q) == IF Trim(q) # <<>> THEN <<Trim(q)>> ELSE <<>>

\* C13 (as stated): with the other dependencies unchanged, once a burst of input
\* changes has passed its debounce, exactly one router.push has been issued for it.
C13_BurstPushesOnce ==
    (search.mounted /\ search.typed /\ ~search.depsChanged /\ search.timers = {}) =>
        search.pushesSinceInput = 1

\* C13 (amended): no router.push happens until 500 ms have passed without a further
\* input change; every push is built from the latest trimmed value; and, while router,
\* search params and pathname stay unchanged, a burst produces no push before its
\* debounce ends and afterwards exactly one push, or none when the last value is blank
\* and the pathname is not /companions.
C13_DebouncedPush ==
    /\ search.last \in {"push", "nopush"} => search.sinceChange = DebounceMs
    /\ search.last = "push" => search.lastPush[1].topic = TopicFor(search.searchQuery)
    /\ (search.mounted /\ search.typed /\ ~search.depsChanged) =>
        /\ search.timers # {} => search.pushesSinceInput = 0
        /\ search.timers = {} =>
            search.pushesSinceInput =
                (IF Trim(search.searchQuery) # <<>> \/ search.pathname = "/companions"
                 THEN 1 ELSE 0)

C13_Witness ==
    /\ search.last = "push"
    /\ search.typed
    /\ ~search.depsChanged
    /\ search.searchQuery = <<" ", "t">>
    /\ search.lastPush = <<[topic |-> << <<"t">> >>]>>
    /\ search.pushesSinceInput = 1

\* C16: when the debounce fires with a blank query, one push of the URL without topic
\* is issued if and only if the pathname is /companions, and on any other pathname
\* nothing is pushed; with a non-blank query the pushed URL has topic set to the
\* trimmed query on any pathname.
C16_BlankRemovesOnlyOnCompanions ==
    [][ search'.last \in {"push", "nopush"} =>
            IF Trim(search.searchQuery) = <<>>
            THEN IF search.pathname = "/companions"
                 THEN /\ search'.last = "push"
                      /\ search'.lastPush = <<[topic |-> <<>>]>>
                 ELSE /\ search'.last = "nopush"
                      /\ search'.lastPush = search.lastPush
            ELSE /\ search'.last = "push"
                 /\ search'.lastPush = <<[topic |-> <<Trim(search.searchQuery)>>]>> ]_vars

C16_Witness ==
    /\ search.last = "nopush"
    /\ search.searchQuery = <<" ">>
    /\ search.pathname = "/"
    /\ search.params.topic # <<>>

\* C14: a card has at most one bookmark request in flight; while a request started by
\* handleBookmark has not settled, isLoading is true and the button is disabled, so a
\* further click starts no additional server action call.
C14_OneRequestInFlight ==
    /\ Len(card.pending) <= 1
    /\ card.pending # <<>> => (card.isLoading /\ ButtonDisabled(card) /\ ~ENABLED CardClick)

C14_Witness ==
    /\ card.mounted
    /\ Len(card.pending) = 1
    /\ card.calls = 2
    /\ card.last = "click"

\* C15: a click calls removeBookmark when isBookmarked is true and addBookmark
\* otherwise; when the call resolves isBookmarked is flipped and a success toast is
\* shown; when it rejects isBookmarked keeps its value and the error toast is shown;
\* either way isLoading is false once the call has settled.
C15_BookmarkOutcome ==
    [][ card.mounted /\ card'.mounted =>
        /\ card'.last = "click" =>
            /\ Len(card'.pending) = Len(card.pending) + 1
            /\ card'.pending[Len(card'.pending)].op =
                 (IF card.isBookmarked THEN "removeBookmark" ELSE "addBookmark")
            /\ card'.pending[Len(card'.pending)].id = CardId
        /\ card'.last = "resolve" =>
            /\ card'.isBookmarked = ~card.isBookmarked
            /\ card'.toasts = Append(card.toasts,
                 IF card.isBookmarked THEN "success: Bookmark removed!"
                 ELSE "success: Bookmarked successfully!")
            /\ card'.isLoading = FALSE
        /\ card'.last = "reject" =>
            /\ card'.isBookmarked = card.isBookmarked
            /\ card'.toasts = Append(card.toasts, "error: Something went wrong!")
            /\ card'.isLoading = FALSE ]_vars

C15_Witness ==
    /\ card.mounted
    /\ card.last = "reject"
    /\ card.was = TRUE
    /\ card.isBookmarked = TRUE
    /\ ~card.isLoading
    /\ Len(card.toasts) = 2
    /\ card.toasts[1] = "success: Bookmarked successfully!"
    /\ card.toasts[2] = "error: Something went wrong!"

\* C17: newCompanionPermissions returns true for every user on the pro plan whatever
\* their companion count; otherwise, once the count query has answered, it returns true
\* exactly when the count is strictly below the limit, which is 3 with the
\* 3_companion_limit feature, 10 with the 10_companion_limit feature (and not the
\* former) and 0 with neither, so a user with neither feature is never permitted. When
\* the count query reports an error it returns nothing and throws.
C17_PermissionByPlan ==
    perm.called /\ perm.result # "none" =>
        IF perm.has.pro
        THEN perm.result = "true"
        ELSE LET limit == IF perm.has.f3 THEN 3 ELSE IF perm.has.f10 THEN 10 ELSE 0
             IN  /\ perm.result = "throw" <=> perm.queryFailed
                 /\ ~perm.queryFailed =>
                        /\ perm.result \in {"true", "false"}
                        /\ perm.result = "true" <=> perm.rows < limit
                 /\ (~perm.has.f3 /\ ~perm.has.f10) => perm.result # "true"

C17_Witness ==
    /\ perm.called
    /\ perm.has = [pro |-> FALSE, f3 |-> FALSE, f10 |-> TRUE]
    /\ perm.rows = 10
    /\ perm.result = "false"
    /\ perm.page = "limit"

\* C21 (as stated): endSession() is available to the user whenever a call has been
\* requested and is not finished, that is while callStatus is Connecting or Active.
C21_EndAvailableWhileRequested ==
    (mounted /\ callStatus \in {"CONNECTING", "ACTIVE"}) => ENABLED handleDisconnect

\* C22: the microphone toggle acts only while callStatus is Active; from a state with
\* any other callStatus no step is a toggleMicrophone, no step issues a setMuted
\* command and no step changes isMuted.
C22_ToggleOnlyWhenActive ==
    [][ callStatus # "ACTIVE" =>
            /\ step'.op # "toggleMicrophone"
            /\ \A i \in 1..Len(step'.cmds) : step'.cmds[i].op # "setMuted"
            /\ isMuted' = isMuted ]_vars

C22_Witness ==
    /\ callStatus = "FINISHED"
    /\ step.op = "call-end"
    /\ isMuted
    /\ mounted

\* C23: an error event, in any state, leaves callStatus, isSpeaking, isMuted and the
\* transcript unchanged, issues no command and does not invoke the completion
\* notifier; callStatus becomes Finished only by a call-end event or by endSession().
C23_ErrorChangesNothing ==
    [][ /\ step'.op = "error" =>
            /\ UNCHANGED <<callStatus, isSpeaking, isMuted, messages, history>>
            /\ step'.cmds = <<>>
        /\ (callStatus # "FINISHED" /\ callStatus' = "FINISHED") =>
            step'.op \in {"call-end", "endSession"} ]_vars

C23_Witness ==
    /\ step.op = "error"
    /\ mounted
    /\ callStatus = "ACTIVE"
    /\ isSpeaking
    /\ Len(messages) = 1
    /\ history = <<>>

\* q is p with k further entries in front of it
IsSuffix(p, q) ==
    /\ Len(p) <= Len(q)
    /\ SubSeq(q, Len(q) - Len(p) + 1, Len(q)) = p

\* C24: the transcript is append-only: across every step the previous display list is
\* a suffix of the new one, so no entry is modified, removed or cleared and the length
\* never decreases.
C24_TranscriptAppendOnly == [][IsSuffix(messages, messages')]_vars

C24_Witness ==
    /\ Len(messages) = 2
    /\ step.op = "startSession"
    /\ Len(history) >= 1

\* C25: a new instance starts Inactive, not speaking, not muted, with an empty
\* transcript; startSession, call-start, call-end and endSession leave isSpeaking,
\* isMuted and the transcript unchanged; speech-start, speech-end, message and
\* toggleMicrophone leave callStatus unchanged.
C25_FlagsIndependentOfStatus ==
    /\ callStatus = "INACTIVE" /\ ~isSpeaking /\ ~isMuted /\ messages = <<>>
    /\ [][ /\ step'.op \in {"startSession", "call-start", "call-end", "endSession"} =>
                UNCHANGED <<isSpeaking, isMuted, messages>>
           /\ step'.op \in {"speech-start", "speech-end", "message", "toggleMicrophone"} =>
                UNCHANGED callStatus ]_vars

C25_Witness ==
    /\ step.op = "call-start"
    /\ mounted
    /\ callStatus = "ACTIVE"
    /\ isSpeaking
    /\ isMuted
    /\ Len(messages) = 1

\* C28: on a channel whose mute state starts unmuted and changes only by the setMuted
\* commands of this instance, isMuted equals the channel's mute state in every
\* reachable state, across any number of toggles and across ending and restarting a
\* call.
C28_MuteInSync == isMuted = chMuted

C28_Witness ==
    /\ isMuted
    /\ chMuted
    /\ step.op = "startSession"
    /\ callStatus = "CONNECTING"
    /\ Len(history) >= 1

\* C26 (as stated): a call-end event that belongs to a call stopped by endSession()
\* and arrives after the user has started the next call neither moves callStatus from
\* Connecting or Active to Finished nor invokes the completion notifier.
C26_LateCallEndIgnored ==
    [][ ( /\ step'.op = "call-end"
          /\ mounted
          /\ link.ends # <<>>
          /\ Head(link.ends).by = "stop"
          /\ Head(link.ends).id < link.id
          /\ callStatus \in {"CONNECTING", "ACTIVE"} ) =>
            (callStatus' = callStatus /\ history' = history) ]_vars

C29_TeardownIssuesNoCommand ==
    [][ /\ step'.op = "unmount" =>
            /\ step'.cmds = <<>>
            /\ link' = link
            /\ UNCHANGED <<callStatus, history>>
        /\ ~mounted =>
            /\ step'.cmds = <<>>
            /\ history' = history ]_vars

C29_Witness ==
    /\ ~mounted
    /\ step.op = "call-end"
    /\ callStatus = "ACTIVE"
    /\ link.lastEnd = 1
    /\ history = <<>>

\* C30: SearchInput has at most one debounce timer pending, and that timer belongs to
\* the current query, pathname and search params (an earlier one is cancelled on every
\* change); none is pending after unmount, no timer callback runs after unmount, and no
\* push is issued for a value that was superseded before its timer came due.
C30_OneTimerCancelledOnChange ==
    /\ Cardinality(search.timers) <= 1
    /\ \A t \in search.timers :
        /\ t.q = search.searchQuery
        /\ t.pathname = search.pathname
        /\ t.params = search.params
    /\ ~search.mounted => search.timers = {}
    /\ search.last \in {"push", "nopush"} => search.mounted
    /\ search.last = "push" => search.lastPush = <<[topic |-> TopicFor(search.searchQuery)]>>

C30_Witness ==
    /\ ~search.mounted
    /\ search.last = "unmount"
    /\ search.typed
    /\ search.searchQuery = <<"t", "e">>
    /\ search.sinceChange = DebounceMs
    /\ search.pushesSinceInput = 0
    /\ search.timers = {}

====
